---- MODULE Spec2Model ----
(***************************************************************************)
(* Model of the task management MCP server                                 *)
(* src/mcp-bearer-token/puch-user-id-mcp-example.py: the in-memory store   *)
(* TASKS and the tools validate, add_task, list_tasks, get_task,           *)
(* complete_task and remove_task.                                          *)
(*                                                                         *)
(* Representation of Python values:                                        *)
(*  - a str whose characters matter (title, notes, due_at, search, the     *)
(*    timestamps) is a sequence of one-character strings;                  *)
(*  - a str that is only compared for equality or emptiness (user id,      *)
(*    tag, priority, status, message text) is a TLA+ string;               *)
(*  - Optional[X] is a sequence of length at most one: None is << >> and   *)
(*    the value x is <<x>>;                                                *)
(*  - a dict is the sequence of its items in insertion order, each item    *)
(*    [k |-> key, v |-> value];                                            *)
(*  - the value of str(uuid.uuid4()) is a number of 1..MaxIds.             *)
(* A tool call is an operator X_call from the store, the clock and the      *)
(* arguments to [store |-> the store after the call, res |-> what the call *)
(* ends in]; the action X applies it to TASKS.                             *)
(* The wall clock read by _now() is assumed not to run backwards.          *)
(* SpecLoop runs the same handlers statement by statement, as coroutines    *)
(* of the asyncio event loop, one frame per caller.                        *)
(***************************************************************************)
EXTENDS Integers, Sequences, FiniteSets, TLC

VARIABLES
  TASKS,       \* the store: user id -> dict of task id -> task
  clock,       \* the wall clock, in ticks
  added,       \* history: id -> the user add_task created it for and the payload returned
  completed,   \* history: the <<user, id>> complete_task has succeeded on, while stored
  removed,     \* history: the <<user, id>> remove_task has succeeded on
  frames       \* caller -> the handler coroutine the event loop runs for it

vars == <<TASKS, clock, added, completed, removed, frames>>

\* ---------------------------------------------------------------- bounds
\* Number of distinct identifiers uuid4 can hand out before add_task is cut off.
MaxIds == 2
\* The instant the process starts at and the last instant of the wall clock, in
\* ticks of 1/TicksPerSecond second.
StartClock == 1
MaxClock == 2
\* Resolution of the clock: ticks per second (1000000 in datetime).
TicksPerSecond == 2
\* Number of callers whose requests the event loop serves.
MaxCallers == 2

\* ------------------------------------------------------------ error codes
INVALID_PARAMS == -32602
INTERNAL_ERROR == -32603

\* --------------------------------------------------------- Python values
None == << >>
Some(x) == <<x>>

\* bool(x) of an Optional[str] or Optional[list] whose value is a sequence:
\* None and the empty value are falsy.
Truthy(o) == o # None /\ o[1] # << >>

\* bool(x) of an Optional[str] whose value is a TLA+ string.
TruthyName(o) == o # None /\ o[1] # ""

\* Code points of the characters the model uses.
Ord(c) ==
  CASE c = " " -> 32 [] c = "." -> 46
    [] c = "0" -> 48 [] c = "1" -> 49 [] c = "2" -> 50 [] c = "3" -> 51
    [] c = "4" -> 52 [] c = "5" -> 53 [] c = "6" -> 54 [] c = "7" -> 55
    [] c = "8" -> 56 [] c = "9" -> 57
    [] c = "A" -> 65 [] c = "B" -> 66 [] c = "a" -> 97 [] c = "b" -> 98

\* str.__lt__ / str.__le__: comparison of two strings by code point, a proper
\* prefix being smaller.
RECURSIVE StrLess(_, _)
StrLess(s, t) ==
  IF t = << >> THEN FALSE
  ELSE IF s = << >> THEN TRUE
  ELSE IF Ord(Head(s)) # Ord(Head(t)) THEN Ord(Head(s)) < Ord(Head(t))
  ELSE StrLess(Tail(s), Tail(t))

StrLeq(s, t) == s = t \/ StrLess(s, t)

isspace(c) == c = " "

\* str.strip(): drop leading and trailing whitespace.
RECURSIVE lstrip(_)
lstrip(s) == IF s # << >> /\ isspace(Head(s)) THEN lstrip(Tail(s)) ELSE s

RECURSIVE rstrip(_)
rstrip(s) ==
  IF s # << >> /\ isspace(s[Len(s)]) THEN rstrip(SubSeq(s, 1, Len(s) - 1)) ELSE s

strip(s) == rstrip(lstrip(s))

\* str.lower()
lower(s) ==
  [i \in DOMAIN s |-> CASE s[i] = "A" -> "a" [] s[i] = "B" -> "b" [] OTHER -> s[i]]

\* q in s  (substring test); s.find(q) != -1 is the same test.
Contains(s, q) ==
  \E i \in 1..(Len(s) - Len(q) + 1) : SubSeq(s, i, i + Len(q) - 1) = q

\* ----------------------------------------------------------------- dicts
Keys(d) == {d[i].k : i \in DOMAIN d}

\* dict.get(k): the value, or None.
DictGet(d, k) ==
  IF k \in Keys(d) THEN Some(d[CHOOSE i \in DOMAIN d : d[i].k = k].v) ELSE None

\* Mutant: assigning a new key starts the dict afresh.
DictSet_fresh(d, k, v) ==
  IF k \in Keys(d)
  THEN [i \in DOMAIN d |-> IF d[i].k = k THEN [k |-> k, v |-> v] ELSE d[i]]
  ELSE <<[k |-> k, v |-> v]>>

\* d[k] = v: overwrite in place, or append a new item.
DictSet(d, k, v) ==
  IF k \in Keys(d)
  THEN [i \in DOMAIN d |-> IF d[i].k = k THEN [k |-> k, v |-> v] ELSE d[i]]
  ELSE Append(d, [k |-> k, v |-> v])

\* Mutant: the last item is dropped, whatever the key (popitem).
DictDel_popitem(d, k) == SubSeq(d, 1, Len(d) - 1)

\* del d[k]
DictDel(d, k) == SelectSeq(d, LAMBDA e : e.k # k)

\* list(d.values())
Values(d) == [i \in DOMAIN d |-> d[i].v]

\* ----------------------------------------------------------------- clock
Digit(n) == <<"0", "1", "2", "3", "4", "5", "6", "7", "8", "9">>[n + 1]

\* datetime.isoformat(): the seconds in two digits, then the fraction, which is
\* left out when it is zero.
isoformat(t) ==
  LET s == t \div TicksPerSecond
      f == t % TicksPerSecond
  IN  <<Digit(s \div 10), Digit(s % 10)>>
        \o (IF f = 0 THEN << >> ELSE <<".", Digit(f)>>)

\* _now()
now(c) == isoformat(c)

\* ------------------------------------------------------------------ json
JNull == <<"null">>
JStr(s) == <<"string", s>>
JArr(xs) == <<"array", xs>>
JOpt(o) == IF o = None THEN JNull ELSE JStr(o[1])

\* json.dumps(task)
DumpsTask(t) ==
  [id |-> JStr(t.id), title |-> JStr(t.title), status |-> JStr(t.status),
   due_at |-> JOpt(t.due_at), priority |-> JStr(t.priority),
   tags |-> JArr([i \in DOMAIN t.tags |-> JStr(t.tags[i])]),
   notes |-> JOpt(t.notes),
   created_at |-> JStr(t.created_at), updated_at |-> JStr(t.updated_at)]

\* json.dumps(tasks)
DumpsList(ts) == JArr([i \in DOMAIN ts |-> DumpsTask(ts[i])])

\* json.dumps({"removed": task_id})
DumpsRemoved(tid) == [removed |-> JStr(tid)]

\* ------------------------------------------------------------- outcomes
\* What a tool call ends in: a text payload, or an McpError with code and message.
Ok(payload) == [ok |-> TRUE, code |-> 0, message |-> << >>, payload |-> payload]
Err(code, msg) == [ok |-> FALSE, code |-> code, message |-> msg, payload |-> JNull]

MsgUserRequired == <<"puch_user_id is required">>
MsgTitleEmpty == <<"title cannot be empty">>
MsgNoTask(tid) == <<"No task", tid, "for user">>

\* The two error kinds of the contract, as the code surfaces them.
InvalidInput(r) ==
  ~r.ok /\ r.code = INVALID_PARAMS /\ r.message \in {MsgUserRequired, MsgTitleEmpty}
NotFound(r, tid) == ~r.ok /\ r.code = INVALID_PARAMS /\ r.message = MsgNoTask(tid)

\* ----------------------------------------------------------------- store
\* TASKS.setdefault(puch_user_id, {})
setdefault(T, u) == IF u \in DOMAIN T THEN T ELSE T @@ (u :> << >>)

\* _user_tasks raises McpError(INVALID_PARAMS) when `not puch_user_id`.
user_tasks_raises(u) == u = ""

\* Mutant: a generator that can repeat an identifier it has handed out.
uuid4_repeating(issued) == 1..MaxIds

\* uuid.uuid4(): some identifier that was never handed out before.
uuid4(issued) == (1..MaxIds) \ issued

\* --------------------------------------------------------------- add_task
\* Mutant: only `not title` is tested, the strip() is forgotten.
add_task_title_falsy(a) == a.title = << >>

\* `not title or not title.strip()`
add_task_title_empty(a) == a.title = << >> \/ strip(a.title) = << >>

add_task_raises(u, a) == add_task_title_empty(a) \/ user_tasks_raises(u)

\* Mutant: the title is kept as given.
new_task_raw_title(tid, a, t) ==
  [id |-> tid,
   title |-> a.title,
   status |-> "open",
   due_at |-> a.due_at,
   priority |-> IF TruthyName(a.priority) THEN a.priority[1] ELSE "normal",
   tags |-> IF Truthy(a.tags) THEN a.tags[1] ELSE << >>,
   notes |-> a.notes,
   created_at |-> t,
   updated_at |-> t]

\* The task dict built at lines 130-140.
new_task(tid, a, t) ==
  [id |-> tid,
   title |-> strip(a.title),
   status |-> "open",
   due_at |-> a.due_at,
   priority |-> IF TruthyName(a.priority) THEN a.priority[1] ELSE "normal",
   tags |-> IF Truthy(a.tags) THEN a.tags[1] ELSE << >>,
   notes |-> a.notes,
   created_at |-> t,
   updated_at |-> t]

\* Mutant: the task is stored before the title is validated.
add_task_call_store_first(T, c, tid, u, a) ==
  IF user_tasks_raises(u)
  THEN [store |-> T, res |-> Err(INVALID_PARAMS, MsgUserRequired)]
  ELSE LET T1 == setdefault(T, u)
           task == new_task(tid, a, now(c))
           T2 == [T1 EXCEPT ![u] = DictSet(@, tid, task)]
       IN  IF add_task_title_empty(a)
           THEN [store |-> T2, res |-> Err(INVALID_PARAMS, MsgTitleEmpty)]
           ELSE [store |-> T2, res |-> Ok(DumpsTask(task))]

\* Mutant: the task is stored with the title as given, and returned with the
\* title stripped.
add_task_call_raw_title(T, c, tid, u, a) ==
  IF add_task_title_empty(a)
  THEN [store |-> T, res |-> Err(INVALID_PARAMS, MsgTitleEmpty)]
  ELSE IF user_tasks_raises(u)
  THEN [store |-> T, res |-> Err(INVALID_PARAMS, MsgUserRequired)]
  ELSE LET T1 == setdefault(T, u)
           task == new_task(tid, a, now(c))
       IN  [store |-> [T1 EXCEPT ![u] = DictSet(@, tid, [task EXCEPT !.title = a.title])],
            res |-> Ok(DumpsTask(task))]

\* add_task: the store and the outcome it ends in.
add_task_call(T, c, tid, u, a) ==
  IF add_task_title_empty(a)
  THEN [store |-> T, res |-> Err(INVALID_PARAMS, MsgTitleEmpty)]
  ELSE IF user_tasks_raises(u)
  THEN [store |-> T, res |-> Err(INVALID_PARAMS, MsgUserRequired)]
  ELSE LET T1 == setdefault(T, u)
           task == new_task(tid, a, now(c))
       IN  [store |-> [T1 EXCEPT ![u] = DictSet(@, tid, task)],
            res |-> Ok(DumpsTask(task))]

\* ------------------------------------------------------------- list_tasks
\* Mutant: a missing due_at is replaced by the empty string.
SortKey_missing_first(t) ==
  <<IF Truthy(t.due_at) THEN t.due_at[1] ELSE << >>, t.created_at>>

\* The sort key (t.get("due_at") or "9999", t["created_at"]).
SortKey(t) ==
  <<IF Truthy(t.due_at) THEN t.due_at[1] ELSE <<"9", "9", "9", "9">>, t.created_at>>

\* Tuple comparison k1 <= k2.
KeyLeq(k1, k2) == StrLess(k1[1], k2[1]) \/ (k1[1] = k2[1] /\ StrLeq(k1[2], k2[2]))

\* Mutant: the tasks are returned in stored order.
SortTasks_unsorted(ts) == ts

\* list.sort(key=...): stable, ascending.
RECURSIVE SortTasks(_)
SortTasks(ts) ==
  IF ts = << >> THEN << >>
  ELSE LET front == SortTasks(SubSeq(ts, 1, Len(ts) - 1))
           x == ts[Len(ts)]
           n == Cardinality({i \in DOMAIN front : KeyLeq(SortKey(front[i]), SortKey(x))})
       IN  SubSeq(front, 1, n) \o <<x>> \o SubSeq(front, n + 1, Len(front))

FilterStatus(ts, status) ==
  IF TruthyName(status) THEN SelectSeq(ts, LAMBDA t : t.status = status[1]) ELSE ts

FilterTag(ts, tag) ==
  IF TruthyName(tag)
  THEN SelectSeq(ts, LAMBDA t : \E i \in DOMAIN t.tags : t.tags[i] = tag[1])
  ELSE ts

\* Mutant: the search compares case-sensitively.
FilterSearch_case_sensitive(ts, search) ==
  IF Truthy(search)
  THEN SelectSeq(ts, LAMBDA t :
         \/ Contains(t.title, search[1])
         \/ Contains(IF Truthy(t.notes) THEN t.notes[1] ELSE << >>, search[1]))
  ELSE ts

FilterSearch(ts, search) ==
  IF Truthy(search)
  THEN LET q == lower(search[1])
       IN  SelectSeq(ts, LAMBDA t :
             \/ Contains(lower(t.title), q)
             \/ Contains(lower(IF Truthy(t.notes) THEN t.notes[1] ELSE << >>), q))
  ELSE ts

\* Mutant: the user's stored tasks are themselves put in sorted order.
list_tasks_try_sort_in_place(T, u, f) ==
  IF user_tasks_raises(u)
  THEN [store |-> T, res |-> Err(INVALID_PARAMS, MsgUserRequired)]
  ELSE LET T1 == setdefault(T, u)
           all == SortTasks(Values(T1[u]))
           tasks == FilterSearch(FilterTag(FilterStatus(all, f.status), f.tag), f.search)
       IN  [store |-> [T1 EXCEPT ![u] = [i \in DOMAIN all |-> [k |-> all[i].id, v |-> all[i]]]],
            res |-> Ok(DumpsList(SortTasks(tasks)))]

\* The body of the try block of list_tasks.
list_tasks_try(T, u, f) ==
  IF user_tasks_raises(u)
  THEN [store |-> T, res |-> Err(INVALID_PARAMS, MsgUserRequired)]
  ELSE LET T1 == setdefault(T, u)
           tasks == FilterSearch(FilterTag(FilterStatus(Values(T1[u]), f.status), f.tag),
                                 f.search)
       IN  [store |-> T1, res |-> Ok(DumpsList(SortTasks(tasks)))]

\* `except Exception as e: _error(INTERNAL_ERROR, str(e))` with no
\* `except McpError: raise` before it: an McpError is an Exception too.
list_tasks_except(r) ==
  IF r.res.ok THEN r ELSE [r EXCEPT !.res = Err(INTERNAL_ERROR, r.res.message)]

list_tasks_call(T, u, f) == list_tasks_except(list_tasks_try(T, u, f))

\* --------------------------------------------------------------- get_task
\* Mutant: the task id is looked up in every user's sub-mapping.
get_task_call_any_user(T, u, tid) ==
  IF user_tasks_raises(u)
  THEN [store |-> T, res |-> Err(INVALID_PARAMS, MsgUserRequired)]
  ELSE LET T1 == setdefault(T, u)
           found == {x \in DOMAIN T1 : tid \in Keys(T1[x])}
       IN  IF found = {}
           THEN [store |-> T1, res |-> Err(INVALID_PARAMS, MsgNoTask(tid))]
           ELSE [store |-> T1,
                 res |-> Ok(DumpsTask(DictGet(T1[CHOOSE x \in found : TRUE], tid)[1]))]

get_task_call(T, u, tid) ==
  IF user_tasks_raises(u)
  THEN [store |-> T, res |-> Err(INVALID_PARAMS, MsgUserRequired)]
  ELSE LET T1 == setdefault(T, u)
           t == DictGet(T1[u], tid)
       IN  IF t = None
           THEN [store |-> T1, res |-> Err(INVALID_PARAMS, MsgNoTask(tid))]
           ELSE [store |-> T1, res |-> Ok(DumpsTask(t[1]))]

\* ---------------------------------------------------------- complete_task
\* Mutant: both timestamps are refreshed.
complete_task_call_touch_created(T, c, u, tid) ==
  IF user_tasks_raises(u)
  THEN [store |-> T, res |-> Err(INVALID_PARAMS, MsgUserRequired)]
  ELSE LET T1 == setdefault(T, u)
           t == DictGet(T1[u], tid)
       IN  IF t = None
           THEN [store |-> T1, res |-> Err(INVALID_PARAMS, MsgNoTask(tid))]
           ELSE LET t2 == [t[1] EXCEPT !.status = "completed", !.updated_at = now(c),
                                        !.created_at = now(c)]
                IN  [store |-> [T1 EXCEPT ![u] = DictSet(@, tid, t2)],
                     res |-> Ok(DumpsTask(t2))]

\* Mutant: the status is toggled.
complete_task_call_toggle(T, c, u, tid) ==
  IF user_tasks_raises(u)
  THEN [store |-> T, res |-> Err(INVALID_PARAMS, MsgUserRequired)]
  ELSE LET T1 == setdefault(T, u)
           t == DictGet(T1[u], tid)
       IN  IF t = None
           THEN [store |-> T1, res |-> Err(INVALID_PARAMS, MsgNoTask(tid))]
           ELSE LET t2 == [t[1] EXCEPT
                             !.status = IF @ = "open" THEN "completed" ELSE "open",
                             !.updated_at = now(c)]
                IN  [store |-> [T1 EXCEPT ![u] = DictSet(@, tid, t2)],
                     res |-> Ok(DumpsTask(t2))]

\* Mutant: completing a task that is completed already drops it from the store.
complete_task_call_archive(T, c, u, tid) ==
  IF user_tasks_raises(u)
  THEN [store |-> T, res |-> Err(INVALID_PARAMS, MsgUserRequired)]
  ELSE LET T1 == setdefault(T, u)
           t == DictGet(T1[u], tid)
       IN  IF t = None
           THEN [store |-> T1, res |-> Err(INVALID_PARAMS, MsgNoTask(tid))]
           ELSE LET t2 == [t[1] EXCEPT !.status = "completed", !.updated_at = now(c)]
                IN  [store |-> [T1 EXCEPT ![u] = IF t[1].status = "completed"
                                                 THEN DictDel(@, tid)
                                                 ELSE DictSet(@, tid, t2)],
                     res |-> Ok(DumpsTask(t2))]

complete_task_call(T, c, u, tid) ==
  IF user_tasks_raises(u)
  THEN [store |-> T, res |-> Err(INVALID_PARAMS, MsgUserRequired)]
  ELSE LET T1 == setdefault(T, u)
           t == DictGet(T1[u], tid)
       IN  IF t = None
           THEN [store |-> T1, res |-> Err(INVALID_PARAMS, MsgNoTask(tid))]
           ELSE LET t2 == [t[1] EXCEPT !.status = "completed", !.updated_at = now(c)]
                IN  [store |-> [T1 EXCEPT ![u] = DictSet(@, tid, t2)],
                     res |-> Ok(DumpsTask(t2))]

\* ------------------------------------------------------------ remove_task
\* Mutant: the task id is looked up and deleted in every user's sub-mapping.
remove_task_call_any_user(T, u, tid) ==
  IF user_tasks_raises(u)
  THEN [store |-> T, res |-> Err(INVALID_PARAMS, MsgUserRequired)]
  ELSE LET T1 == setdefault(T, u)
       IN  IF \A x \in DOMAIN T1 : tid \notin Keys(T1[x])
           THEN [store |-> T1, res |-> Err(INVALID_PARAMS, MsgNoTask(tid))]
           ELSE [store |-> [x \in DOMAIN T1 |-> DictDel(T1[x], tid)],
                 res |-> Ok(DumpsRemoved(tid))]

\* Mutant: a sub-mapping that the deletion leaves empty is dropped from the store.
remove_task_call_drop_empty(T, u, tid) ==
  IF user_tasks_raises(u)
  THEN [store |-> T, res |-> Err(INVALID_PARAMS, MsgUserRequired)]
  ELSE LET T1 == setdefault(T, u)
       IN  IF tid \notin Keys(T1[u])
           THEN [store |-> T1, res |-> Err(INVALID_PARAMS, MsgNoTask(tid))]
           ELSE [store |-> IF DictDel(T1[u], tid) = << >>
                           THEN [x \in DOMAIN T1 \ {u} |-> T1[x]]
                           ELSE [T1 EXCEPT ![u] = DictDel(@, tid)],
                 res |-> Ok(DumpsRemoved(tid))]

remove_task_call(T, u, tid) ==
  IF user_tasks_raises(u)
  THEN [store |-> T, res |-> Err(INVALID_PARAMS, MsgUserRequired)]
  ELSE LET T1 == setdefault(T, u)
       IN  IF tid \notin Keys(T1[u])
           THEN [store |-> T1, res |-> Err(INVALID_PARAMS, MsgNoTask(tid))]
           ELSE [store |-> [T1 EXCEPT ![u] = DictDel(@, tid)],
                 res |-> Ok(DumpsRemoved(tid))]

\* ----------------------------------------------------------------- inputs
UserIds == {"", "alice", "bob"}

TaskIdArgs == 1..MaxIds

AddArgs ==
  { [title |-> <<"a">>, due_at |-> None, priority |-> None, tags |-> None,
     notes |-> None],
    [title |-> <<" ", "B", " ">>, due_at |-> Some(<<"2">>), priority |-> Some("high"),
     tags |-> Some(<<"x">>), notes |-> Some(<<"A">>)],
    [title |-> <<" ">>, due_at |-> None, priority |-> Some("low"), tags |-> Some(<<"x">>),
     notes |-> None],
    [title |-> << >>, due_at |-> None, priority |-> None, tags |-> None,
     notes |-> None] }

\* list_tasks filters: none, each filter alone, and all three together.
ListArgs ==
  {f \in [status : {None, Some("open"), Some("completed")},
          tag : {None, Some("x")},
          search : {None, Some(<<"a">>)}] :
     \/ (IF f.status = None THEN 0 ELSE 1) + (IF f.tag = None THEN 0 ELSE 1)
          + (IF f.search = None THEN 0 ELSE 1) <= 1
     \/ f = [status |-> Some("completed"), tag |-> Some("x"), search |-> Some(<<"a">>)]}

\* The identifiers uuid4 may return to a call of add_task; uuid4 is reached only
\* when the title and the user id pass (0 stands for "not generated").
AddIds(u, a) == IF add_task_raises(u, a) THEN {0} ELSE uuid4(DOMAIN added)

\* -------------------------------------------------------------- coroutines
Callers == 1..MaxCallers

NoFilter == [status |-> None, tag |-> None, search |-> None]

\* The frame of a caller for whom no handler is running.
IdleFrame ==
  [pc |-> "idle", op |-> "", u |-> "", tid |-> 0,
   a |-> [title |-> << >>, due_at |-> None, priority |-> None, tags |-> None,
          notes |-> None],
   snap |-> << >>, t |-> StartClock, res |-> Ok(JNull)]

\* Mutant: complete_task and remove_task await between the lookup and the
\* mutation.
AwaitPoints_after_lookup(op) ==
  IF op \in {"complete_task", "remove_task"} THEN {"found"} ELSE {}

\* The places of handler op at which its coroutine gives control back to the
\* event loop: the handlers are `async def` without any await.
AwaitPoints(op) == {}

\* The event loop is inside the coroutine of caller c.
Running(c) == frames[c].pc \notin {"idle"} \cup AwaitPoints(frames[c].op)

\* The loop can run (start or resume) the coroutine of caller c only while no
\* other coroutine is running.
MayRun(c) == \A d \in Callers \ {c} : ~Running(d)

\* ------------------------------------------------------------ state machine
Init ==
  /\ TASKS = << >>
  /\ clock = StartClock
  /\ added = << >>
  /\ completed = {}
  /\ removed = {}
  /\ frames = [c \in Callers |-> IdleFrame]

\* The wall clock advances.
Tick ==
  /\ clock < MaxClock
  /\ clock' = clock + 1
  /\ UNCHANGED <<TASKS, added, completed, removed, frames>>

\* validate returns MY_NUMBER and touches nothing.
validate == UNCHANGED vars

add_task(u, a) ==
  \E tid \in AddIds(u, a) :
    LET r == add_task_call(TASKS, clock, tid, u, a)
    IN  /\ TASKS' = r.store
        /\ added' = IF r.res.ok
                    THEN [i \in DOMAIN added \cup {tid} |->
                            IF i = tid THEN [user |-> u, payload |-> r.res.payload]
                            ELSE added[i]]
                    ELSE added
        /\ UNCHANGED <<clock, completed, removed, frames>>

list_tasks(u, f) ==
  /\ TASKS' = list_tasks_call(TASKS, u, f).store
  /\ UNCHANGED <<clock, added, completed, removed, frames>>

get_task(u, tid) ==
  /\ TASKS' = get_task_call(TASKS, u, tid).store
  /\ UNCHANGED <<clock, added, completed, removed, frames>>

complete_task(u, tid) ==
  LET r == complete_task_call(TASKS, clock, u, tid)
  IN  /\ TASKS' = r.store
      /\ completed' = IF r.res.ok THEN completed \cup {<<u, tid>>} ELSE completed
      /\ UNCHANGED <<clock, added, removed, frames>>

\* Once the task is gone the history keeps only who it was created for and that
\* it was removed.
remove_task(u, tid) ==
  LET r == remove_task_call(TASKS, u, tid)
  IN  /\ TASKS' = r.store
      /\ removed' = IF r.res.ok THEN removed \cup {<<u, tid>>} ELSE removed
      /\ completed' = IF r.res.ok THEN completed \ {<<u, tid>>} ELSE completed
      /\ added' = IF r.res.ok /\ tid \in DOMAIN added
                  THEN [added EXCEPT ![tid].payload = JNull] ELSE added
      /\ UNCHANGED <<clock, frames>>

Next ==
  \/ Tick
  \/ validate
  \/ \E u \in UserIds, a \in AddArgs : add_task(u, a)
  \/ \E u \in UserIds, f \in ListArgs : list_tasks(u, f)
  \/ \E u \in UserIds, tid \in TaskIdArgs : get_task(u, tid)
  \/ \E u \in UserIds, tid \in TaskIdArgs : complete_task(u, tid)
  \/ \E u \in UserIds, tid \in TaskIdArgs : remove_task(u, tid)

Spec == Init /\ [][Next]_vars

\* ------------------------------------------------- the listing, wider inputs
\* add_task arguments whose due_at lies on either side of the "9999" of the sort
\* key (due_at is stored as given, line 134), with titles, notes and tags that
\* the filters tell apart.
DueAddArgs ==
  { [title |-> <<"a">>, due_at |-> None, priority |-> None, tags |-> None,
     notes |-> None],
    [title |-> <<" ", "B", " ">>, due_at |-> Some(<<"2">>), priority |-> Some("high"),
     tags |-> Some(<<"x">>), notes |-> Some(<<"A">>)],
    [title |-> <<"b">>, due_at |-> Some(<<"9", "9", "9", "9", "9">>),
     priority |-> Some("low"), tags |-> Some(<<"x">>), notes |-> Some(<< >>)],
    [title |-> <<"A">>, due_at |-> Some(<< >>), priority |-> None, tags |-> Some(<< >>),
     notes |-> Some(<<"b">>)] }

\* One user and the empty user id.
SoloUsers == {"", "alice"}

\* list_tasks filters, the empty tag and the empty search among them.
FilterArgs ==
  [status : {None, Some("open"), Some("completed")},
   tag : {None, Some(""), Some("x")},
   search : {None, Some(<< >>), Some(<<"A">>)}]

NextList ==
  \/ Tick
  \/ validate
  \/ \E u \in SoloUsers, a \in DueAddArgs : add_task(u, a)
  \/ \E u \in SoloUsers, f \in FilterArgs : list_tasks(u, f)
  \/ \E u \in SoloUsers, tid \in TaskIdArgs : get_task(u, tid)
  \/ \E u \in SoloUsers, tid \in TaskIdArgs : complete_task(u, tid)
  \/ \E u \in SoloUsers, tid \in TaskIdArgs : remove_task(u, tid)

SpecList == Init /\ [][NextList]_vars

\* -------------------------------------------------- handlers, step by step
LoopAddArgs == {a \in AddArgs : a.priority # None}

\* The requests callers send.
LoopCalls ==
  {[op |-> "add_task", u |-> u, tid |-> 0, a |-> a] : u \in SoloUsers, a \in LoopAddArgs}
    \cup {[op |-> o, u |-> u, tid |-> tid, a |-> IdleFrame.a] :
             o \in {"get_task", "complete_task", "remove_task"},
             u \in SoloUsers, tid \in TaskIdArgs}
    \cup {[op |-> "list_tasks", u |-> u, tid |-> 0, a |-> IdleFrame.a] : u \in SoloUsers}

\* The frame of caller c is in handler op at pc, and the loop may run it.
At(c, op, pc) == frames[c].op = op /\ frames[c].pc = pc /\ MayRun(c)

\* The frame of caller c ends in outcome res.
Returning(c, res) == [frames EXCEPT ![c].pc = "return", ![c].res = res]

\* The loop starts the handler for a request of caller c; snap records the
\* store the handler starts from. An add_task that would pass validation is
\* started only while uuid4 has an identifier left.
Invoke(c, call) ==
  /\ frames[c].pc = "idle"
  /\ MayRun(c)
  /\ (call.op = "add_task" /\ ~add_task_raises(call.u, call.a)) => uuid4(DOMAIN added) # {}
  /\ frames' = [frames EXCEPT ![c] =
                  [pc |-> "start", op |-> call.op, u |-> call.u, tid |-> call.tid,
                   a |-> call.a, snap |-> TASKS, t |-> StartClock, res |-> Ok(JNull)]]
  /\ UNCHANGED <<TASKS, clock, added, completed, removed>>

\* add_task, lines 125-140: the title check, _user_tasks, uuid4, _now and the
\* task dict.
add_task_validate(c) ==
  /\ At(c, "add_task", "start")
  /\ LET fr == frames[c]
     IN  IF add_task_title_empty(fr.a)
         THEN /\ frames' = Returning(c, Err(INVALID_PARAMS, MsgTitleEmpty))
              /\ UNCHANGED <<TASKS, added>>
         ELSE IF user_tasks_raises(fr.u)
         THEN /\ frames' = Returning(c, Err(INVALID_PARAMS, MsgUserRequired))
              /\ UNCHANGED <<TASKS, added>>
         ELSE \E tid \in uuid4(DOMAIN added) :
                /\ TASKS' = setdefault(TASKS, fr.u)
                /\ added' = [i \in DOMAIN added \cup {tid} |->
                               IF i = tid THEN [user |-> fr.u, payload |-> JNull]
                               ELSE added[i]]
                /\ frames' = [frames EXCEPT ![c].pc = "built", ![c].tid = tid,
                                                  ![c].t = clock]
  /\ UNCHANGED <<clock, completed, removed>>

\* add_task, lines 141-142: the insertion and the return.
add_task_store(c) ==
  /\ At(c, "add_task", "built")
  /\ LET fr == frames[c]
         task == new_task(fr.tid, fr.a, now(fr.t))
     IN  /\ TASKS' = [TASKS EXCEPT ![fr.u] = DictSet(@, fr.tid, task)]
         /\ added' = [added EXCEPT ![fr.tid].payload = DumpsTask(task)]
         /\ frames' = Returning(c, Ok(DumpsTask(task)))
  /\ UNCHANGED <<clock, completed, removed>>

\* list_tasks, lines 161-179.
list_tasks_run(c) ==
  /\ At(c, "list_tasks", "start")
  /\ LET r == list_tasks_call(TASKS, frames[c].u, NoFilter)
     IN  TASKS' = r.store /\ frames' = Returning(c, r.res)
  /\ UNCHANGED <<clock, added, completed, removed>>

\* get_task, lines 188-195.
get_task_run(c) ==
  /\ At(c, "get_task", "start")
  /\ LET r == get_task_call(TASKS, frames[c].u, frames[c].tid)
     IN  TASKS' = r.store /\ frames' = Returning(c, r.res)
  /\ UNCHANGED <<clock, added, completed, removed>>

\* complete_task and remove_task, lines 204-207 and 223-225: _user_tasks and
\* the lookup of the task.
task_lookup(c) ==
  /\ \/ At(c, "complete_task", "start")
     \/ At(c, "remove_task", "start")
  /\ LET fr == frames[c]
     IN  IF user_tasks_raises(fr.u)
         THEN /\ frames' = Returning(c, Err(INVALID_PARAMS, MsgUserRequired))
              /\ UNCHANGED TASKS
         ELSE /\ TASKS' = setdefault(TASKS, fr.u)
              /\ frames' = IF fr.tid \in Keys(setdefault(TASKS, fr.u)[fr.u])
                            THEN [frames EXCEPT ![c].pc = "found"]
                            ELSE Returning(c, Err(INVALID_PARAMS, MsgNoTask(fr.tid)))
  /\ UNCHANGED <<clock, added, completed, removed>>

\* complete_task, line 208: t["status"] = "completed". t is the dict found by
\* the lookup: when it is in the store no more, the store stays as it is.
complete_task_status(c) ==
  /\ At(c, "complete_task", "found")
  /\ LET fr == frames[c]
     IN  TASKS' = IF fr.tid \in Keys(TASKS[fr.u])
                  THEN [TASKS EXCEPT ![fr.u] =
                          DictSet(@, fr.tid, [DictGet(@, fr.tid)[1] EXCEPT !.status = "completed"])]
                  ELSE TASKS
  /\ frames' = [frames EXCEPT ![c].pc = "status_set"]
  /\ UNCHANGED <<clock, added, completed, removed>>

\* complete_task, lines 209-210: t["updated_at"] = _now() and the return.
complete_task_stamp(c) ==
  /\ At(c, "complete_task", "status_set")
  /\ LET fr == frames[c]
     IN  IF fr.tid \in Keys(TASKS[fr.u])
         THEN LET t2 == [DictGet(TASKS[fr.u], fr.tid)[1] EXCEPT !.updated_at = now(clock)]
              IN  /\ TASKS' = [TASKS EXCEPT ![fr.u] = DictSet(@, fr.tid, t2)]
                  /\ frames' = [Returning(c, Ok(DumpsTask(t2))) EXCEPT ![c].t = clock]
                  /\ completed' = completed \cup {<<fr.u, fr.tid>>}
         ELSE /\ frames' = [Returning(c, Ok(JNull)) EXCEPT ![c].t = clock]
              /\ UNCHANGED <<TASKS, completed>>
  /\ UNCHANGED <<clock, added, removed>>

\* remove_task, lines 226-227: del user_tasks[task_id] and the return; a key
\* that is there no more is a KeyError, reported as INTERNAL_ERROR.
remove_task_delete(c) ==
  /\ At(c, "remove_task", "found")
  /\ LET fr == frames[c]
     IN  IF fr.tid \in Keys(TASKS[fr.u])
         THEN /\ TASKS' = [TASKS EXCEPT ![fr.u] = DictDel(@, fr.tid)]
              /\ frames' = Returning(c, Ok(DumpsRemoved(fr.tid)))
              /\ removed' = removed \cup {<<fr.u, fr.tid>>}
              /\ completed' = completed \ {<<fr.u, fr.tid>>}
              /\ added' = IF fr.tid \in DOMAIN added
                          THEN [added EXCEPT ![fr.tid].payload = JNull] ELSE added
         ELSE /\ frames' = Returning(c, Err(INTERNAL_ERROR, <<"KeyError", fr.tid>>))
              /\ UNCHANGED <<TASKS, removed, completed, added>>
  /\ UNCHANGED clock

\* The handler's result goes back to the caller.
Return(c) ==
  /\ At(c, frames[c].op, "return")
  /\ frames' = [frames EXCEPT ![c] = IdleFrame]
  /\ UNCHANGED <<TASKS, clock, added, completed, removed>>

NextLoop ==
  \/ Tick
  \/ \E c \in Callers, call \in LoopCalls : Invoke(c, call)
  \/ \E c \in Callers : add_task_validate(c)
  \/ \E c \in Callers : add_task_store(c)
  \/ \E c \in Callers : list_tasks_run(c)
  \/ \E c \in Callers : get_task_run(c)
  \/ \E c \in Callers : task_lookup(c)
  \/ \E c \in Callers : complete_task_status(c)
  \/ \E c \in Callers : complete_task_stamp(c)
  \/ \E c \in Callers : remove_task_delete(c)
  \/ \E c \in Callers : Return(c)

SpecLoop == Init /\ [][NextLoop]_vars

\* ----------------------------------------------------------------- claims
ValidUsers == UserIds \ {""}

\* A title that is empty or whitespace only.
Blank(title) == \A i \in DOMAIN title : title[i] = " "

\* The identifiers add_task has created for user u, removed ones included.
Owned(u) == {i \in DOMAIN added : added[i].user = u}

\* The keys of u's sub-mapping in store S (none when u has no sub-mapping).
KeysOf(S, u) == IF u \in DOMAIN S THEN Keys(S[u]) ELSE {}

\* The stored task (u, tid) of store S.
TaskOf(S, u, tid) == DictGet(S[u], tid)[1]

\* The identifiers of the tasks in a task payload and in a list payload.
TaskPayloadIds(res) == IF res.ok THEN {res.payload.id[2]} ELSE {}
ListPayloadIds(res) ==
  IF res.ok THEN {res.payload[2][i].id[2] : i \in DOMAIN res.payload[2]} ELSE {}

\* User B's part of store S is what it is in TASKS.
SamePartition(S, B) ==
  /\ B \in DOMAIN S <=> B \in DOMAIN TASKS
  /\ B \in DOMAIN TASKS => S[B] = TASKS[B]

\* C1: store partitioning. In every reachable state, whatever call user A makes
\* (add, list, get, complete, remove, with any arguments), the call leaves the
\* sub-mapping of every other user B as it was, returns no task that was added
\* under B, and fails as NotFound when its task_id is a key of B's sub-mapping
\* only.
C1_Partition ==
  \A A \in UserIds :
    LET Others == UserIds \ {A}
        \* The call left every other user's part alone and returned none of
        \* their tasks.
        Apart(r, ids) ==
          \A B \in Others : SamePartition(r.store, B) /\ ids \cap Owned(B) = {}
    IN  /\ \A a \in AddArgs : \A tid \in AddIds(A, a) :
             LET r == add_task_call(TASKS, clock, tid, A, a)
             IN  Apart(r, TaskPayloadIds(r.res))
        /\ \A f \in ListArgs :
             LET r == list_tasks_call(TASKS, A, f)
             IN  Apart(r, ListPayloadIds(r.res))
        /\ \A tid \in TaskIdArgs :
             LET g == get_task_call(TASKS, A, tid)
                 c == complete_task_call(TASKS, clock, A, tid)
                 d == remove_task_call(TASKS, A, tid)
             IN  /\ Apart(g, TaskPayloadIds(g.res))
                 /\ Apart(c, TaskPayloadIds(c.res))
                 /\ Apart(d, {})
                 /\ (A # "" /\ tid \notin KeysOf(TASKS, A)
                       /\ \E B \in Others : tid \in KeysOf(TASKS, B)) =>
                      /\ NotFound(g.res, tid)
                      /\ NotFound(c.res, tid)
                      /\ NotFound(d.res, tid)

\* Both users hold a task, so each id under one of them exists only there.
C1_Witness ==
  /\ \A u \in ValidUsers : KeysOf(TASKS, u) # {}
  /\ \E A \in ValidUsers, B \in ValidUsers :
       \E tid \in KeysOf(TASKS, B) \ KeysOf(TASKS, A) :
         NotFound(get_task_call(TASKS, A, tid).res, tid)

\* C2: each of the five operations, called with an empty user identifier, fails
\* with InvalidInput (code INVALID_PARAMS).
C2_EmptyUserIsInvalidInput ==
  /\ \A a \in AddArgs : \A tid \in AddIds("", a) :
       InvalidInput(add_task_call(TASKS, clock, tid, "", a).res)
  /\ \A f \in ListArgs : InvalidInput(list_tasks_call(TASKS, "", f).res)
  /\ \A tid \in TaskIdArgs :
       /\ InvalidInput(get_task_call(TASKS, "", tid).res)
       /\ InvalidInput(complete_task_call(TASKS, clock, "", tid).res)
       /\ InvalidInput(remove_task_call(TASKS, "", tid).res)

\* C3: add_task with an empty or whitespace-only title fails with InvalidInput
\* and leaves the whole store as it was, for every user id.
C3_BlankTitleRejected ==
  \A u \in UserIds, a \in AddArgs :
    Blank(a.title) =>
      \A tid \in AddIds(u, a) :
        LET r == add_task_call(TASKS, clock, tid, u, a)
        IN  InvalidInput(r.res) /\ r.store = TASKS

\* A whitespace-only title is refused while the store holds tasks.
C3_Witness ==
  /\ \E u \in DOMAIN TASKS : TASKS[u] # << >>
  /\ \E u \in ValidUsers, a \in AddArgs :
       /\ Blank(a.title) /\ a.title # << >>
       /\ InvalidInput(add_task_call(TASKS, clock, 0, u, a).res)

\* What a failed call by user u may leave behind in store S: every sub-mapping
\* of TASKS as it was and, when `fresh` holds, an empty sub-mapping for u.
FailedFrame(S, u, fresh) ==
  /\ \A x \in DOMAIN TASKS : x \in DOMAIN S /\ S[x] = TASKS[x]
  /\ \A x \in DOMAIN S \ DOMAIN TASKS : fresh /\ x = u /\ u # "" /\ S[x] = << >>

ReadFrame(S, u) ==
  /\ DOMAIN S = DOMAIN TASKS \cup (IF u = "" THEN {} ELSE {u})
  /\ \A x \in DOMAIN TASKS : S[x] = TASKS[x]
  /\ \A x \in DOMAIN S \ DOMAIN TASKS : S[x] = << >>

C6_AddReturnsFreshOpenTask ==
  \A u \in ValidUsers, a \in AddArgs :
    ~Blank(a.title) =>
      \A tid \in AddIds(u, a) :
        LET r == add_task_call(TASKS, clock, tid, u, a)
        IN  /\ r.res.ok
            /\ r.res.payload.id = JStr(tid)
            /\ tid \notin Owned(u) \cup KeysOf(TASKS, u)
            /\ r.res.payload.status = JStr("open")
            /\ r.res.payload.created_at = r.res.payload.updated_at
            /\ r.res.payload = DumpsTask(TaskOf(r.store, u, tid))

\* A user has had a task added and removed, and a further add_task for that
\* user succeeds.
C6_Witness ==
  \E u \in ValidUsers :
    /\ \E tid \in Owned(u) : <<u, tid>> \in removed
    /\ \E a \in AddArgs : \E tid \in AddIds(u, a) :
         ~Blank(a.title) /\ add_task_call(TASKS, clock, tid, u, a).res.ok

\* C7: round trip add/get. For every task T that add_task returned to user U
\* and that has since been neither completed nor removed, whatever else was
\* called in between, get_task(U, T.id) succeeds and returns a payload equal to
\* the one add_task returned (all nine fields).
C7_AddGetRoundTrip ==
  \A tid \in DOMAIN added :
    LET u == added[tid].user
    IN  (<<u, tid>> \notin removed /\ <<u, tid>> \notin completed) =>
          LET r == get_task_call(TASKS, u, tid)
          IN  r.res.ok /\ r.res.payload = added[tid].payload

\* A task added with a padded title, every optional field set, is still open
\* after the clock has moved and another task was completed or removed.
C7_Witness ==
  \E tid \in DOMAIN added :
    LET u == added[tid].user
    IN  /\ <<u, tid>> \notin removed /\ <<u, tid>> \notin completed
        /\ added[tid].payload.title = JStr(<<"B">>)
        /\ added[tid].payload.notes # JNull
        /\ added[tid].payload.created_at # JStr(now(clock))
        /\ completed \cup removed # {}
        /\ get_task_call(TASKS, u, tid).res.ok

\* C8: complete_task on an existing task succeeds, sets its status to
\* "completed", leaves id, title, due_at, priority, tags, notes and created_at
\* as they were, sets updated_at to a value not smaller (as strings) than the
\* previous one, changes no other item of the sub-mapping, and returns the
\* stored task.
C8_CompleteFrame ==
  \A u \in DOMAIN TASKS : \A tid \in Keys(TASKS[u]) :
    LET old == TaskOf(TASKS, u, tid)
        r == complete_task_call(TASKS, clock, u, tid)
        new == TaskOf(r.store, u, tid)
    IN  /\ r.res.ok
        /\ Keys(r.store[u]) = Keys(TASKS[u])
        /\ new.status = "completed"
        /\ new = [old EXCEPT !.status = "completed", !.updated_at = new.updated_at]
        /\ StrLeq(old.updated_at, new.updated_at)
        /\ r.res.payload = DumpsTask(new)

\* A stored task was completed at a later instant than it was created at.
C8_Witness ==
  \E p \in completed :
    LET t == TaskOf(TASKS, p[1], p[2])
    IN  /\ t.status = "completed"
        /\ StrLess(t.created_at, t.updated_at)
        /\ t.notes # None

\* C9: complete_task on a task that is already "completed" succeeds, the status
\* stays "completed", and the task differs from what it was in updated_at at
\* most.
C9_CompleteIdempotent ==
  \A u \in DOMAIN TASKS : \A tid \in Keys(TASKS[u]) :
    LET old == TaskOf(TASKS, u, tid)
        r == complete_task_call(TASKS, clock, u, tid)
        new == TaskOf(r.store, u, tid)
    IN  old.status = "completed" =>
          /\ r.res.ok
          /\ new.status = "completed"
          /\ new = [old EXCEPT !.updated_at = new.updated_at]
          /\ r.res.payload = DumpsTask(new)

\* A task was completed at an earlier instant, and completing it again now
\* succeeds and moves updated_at.
C9_Witness ==
  \E p \in completed :
    LET old == TaskOf(TASKS, p[1], p[2])
        r == complete_task_call(TASKS, clock, p[1], p[2])
    IN  /\ old.status = "completed"
        /\ r.res.ok
        /\ StrLess(old.updated_at, TaskOf(r.store, p[1], p[2]).updated_at)

\* C10: remove_task on a stored task succeeds and confirms exactly that id, and
\* get_task fails as NotFound right after it; and for every (U, id) that
\* remove_task has ever removed, in every later state, get_task, complete_task
\* and remove_task on (U, id) fail as NotFound.
C10_RemovedStaysGone ==
  /\ \A u \in DOMAIN TASKS : \A tid \in Keys(TASKS[u]) :
       LET r == remove_task_call(TASKS, u, tid)
       IN  /\ r.res = Ok(DumpsRemoved(tid))
           /\ NotFound(get_task_call(r.store, u, tid).res, tid)
  /\ \A p \in removed :
       /\ NotFound(get_task_call(TASKS, p[1], p[2]).res, p[2])
       /\ NotFound(complete_task_call(TASKS, clock, p[1], p[2]).res, p[2])
       /\ NotFound(remove_task_call(TASKS, p[1], p[2]).res, p[2])

\* A task of a user was removed and the user holds another task, added since.
C10_Witness ==
  \E p \in removed :
    /\ KeysOf(TASKS, p[1]) # {}
    /\ \A tid \in KeysOf(TASKS, p[1]) : tid > p[2]
    /\ NotFound(get_task_call(TASKS, p[1], p[2]).res, p[2])

\* C11: for every non-empty user id and every task id, get_task, complete_task
\* and remove_task succeed exactly when the task id is a key of that user's
\* sub-mapping, and otherwise fail as NotFound with the message naming the id;
\* so they do when the user has no sub-mapping or an empty one.
C11_SucceedIffStored ==
  \A u \in ValidUsers, tid \in TaskIdArgs :
    LET g == get_task_call(TASKS, u, tid)
        c == complete_task_call(TASKS, clock, u, tid)
        d == remove_task_call(TASKS, u, tid)
        stored == tid \in KeysOf(TASKS, u)
    IN  /\ g.res.ok <=> stored
        /\ c.res.ok <=> stored
        /\ d.res.ok <=> stored
        /\ ~stored => /\ NotFound(g.res, tid)
                       /\ NotFound(c.res, tid)
                       /\ NotFound(d.res, tid)

\* One user never had a task and has no sub-mapping, the other holds one task
\* and has had another removed; the three calls succeed on the stored id only.
C11_Witness ==
  \E u \in ValidUsers, v \in ValidUsers :
    /\ v \notin DOMAIN TASKS
    /\ NotFound(get_task_call(TASKS, v, 1).res, 1)
    /\ \E tid \in KeysOf(TASKS, u), old \in TaskIdArgs :
         /\ <<u, old>> \in removed
         /\ get_task_call(TASKS, u, tid).res.ok
         /\ remove_task_call(TASKS, u, tid).res.ok
         /\ NotFound(complete_task_call(TASKS, clock, u, old).res, old)

\* The tasks of a successful list_tasks payload.
Listed(res) == res.payload[2]

\* The sentinel of the claims and (x.due_at or sentinel_max, x.created_at) of a
\* returned task.
SentinelMax == <<"9", "9", "9", "9">>
DueOrMax(p) ==
  IF p.due_at = JNull THEN SentinelMax
  ELSE IF p.due_at[2] = << >> THEN SentinelMax
  ELSE p.due_at[2]
PairLeq(pa, pb) ==
  \/ StrLess(DueOrMax(pa), DueOrMax(pb))
  \/ /\ DueOrMax(pa) = DueOrMax(pb)
     /\ (pa.created_at[2] = pb.created_at[2] \/ StrLess(pa.created_at[2], pb.created_at[2]))

\* C12: list_tasks with no filter succeeds for every non-empty user id and
\* returns every task of that user's sub-mapping exactly once, as stored, and
\* nothing else; and for any two returned tasks A before B,
\* (A.due_at or "9999", A.created_at) <= (B.due_at or "9999", B.created_at).
C12_ListAllSorted ==
  \A u \in ValidUsers :
    LET r == list_tasks_call(TASKS, u, NoFilter)
    IN  /\ r.res.ok
        /\ Len(Listed(r.res)) = Cardinality(KeysOf(TASKS, u))
        /\ ListPayloadIds(r.res) = KeysOf(TASKS, u)
        /\ \A i \in DOMAIN Listed(r.res) :
             Listed(r.res)[i] = DumpsTask(TaskOf(TASKS, u, Listed(r.res)[i].id[2]))
        /\ \A i \in DOMAIN Listed(r.res), j \in DOMAIN Listed(r.res) :
             i < j => PairLeq(Listed(r.res)[i], Listed(r.res)[j])

\* A user holds two tasks, stored in the order they were added in, which the
\* listing returns in the opposite order (the second has a due_at, the first
\* has none), while the other user has a sub-mapping of their own.
C12_Witness ==
  \E u \in ValidUsers, v \in ValidUsers :
    LET r == list_tasks_call(TASKS, u, NoFilter)
    IN  /\ u # v
        /\ v \in DOMAIN TASKS
        /\ u \in DOMAIN TASKS
        /\ Len(TASKS[u]) = 2
        /\ r.res.ok
        /\ Listed(r.res)[1].id[2] = TASKS[u][2].k
        /\ Listed(r.res)[2].id[2] = TASKS[u][1].k
        /\ StrLess(Listed(r.res)[2].created_at[2], Listed(r.res)[1].created_at[2])

\* C13 as claimed: in every list_tasks result, whatever the filters, a task
\* with no due_at (null) comes after every task that has one, for every due_at
\* string add_task stores.
C13_NoDueAfterEveryDue ==
  \A u \in SoloUsers \ {""}, f \in FilterArgs :
    LET r == list_tasks_call(TASKS, u, f)
    IN  r.res.ok =>
          \A i \in DOMAIN Listed(r.res), j \in DOMAIN Listed(r.res) :
            (Listed(r.res)[i].due_at = JNull /\ Listed(r.res)[j].due_at # JNull) => j < i

\* A returned task counts as being without due date when due_at is null or the
\* empty string, and as due before the sentinel when due_at is a non-empty
\* string that compares smaller than "9999".
WithoutDue(p) == p.due_at = JNull \/ p.due_at = JStr(<< >>)
DueBeforeSentinel(p) ==
  p.due_at # JNull /\ p.due_at[2] # << >> /\ StrLess(p.due_at[2], SentinelMax)

\* C13 amended: in every list_tasks result, every task whose due_at is missing
\* or empty comes after every task whose due_at is a non-empty string that
\* compares smaller than "9999" (every ISO-8601 timestamp of a four-digit year
\* before 9999 does). A due_at that is "9999" or compares greater is not placed
\* before the tasks without due date.
C13_NoDueAfterEarlierDue ==
  \A u \in SoloUsers \ {""}, f \in FilterArgs :
    LET r == list_tasks_call(TASKS, u, f)
    IN  r.res.ok =>
          \A i \in DOMAIN Listed(r.res), j \in DOMAIN Listed(r.res) :
            (WithoutDue(Listed(r.res)[i]) /\ DueBeforeSentinel(Listed(r.res)[j])) => j < i

\* A task without due date was added before a task due at "2", and the listing
\* returns the second one first.
C13_Witness ==
  \E u \in SoloUsers \ {""} :
    LET r == list_tasks_call(TASKS, u, NoFilter)
    IN  /\ r.res.ok
        /\ Len(Listed(r.res)) = 2
        /\ Listed(r.res)[2].id[2] = TASKS[u][1].k
        /\ Listed(r.res)[2].due_at = JNull
        /\ DueBeforeSentinel(Listed(r.res)[1])

\* q occurs in s when letter case is ignored.
SameLetter(c, d) == lower(<<c>>) = lower(<<d>>)
Occurs(q, s) ==
  \E k \in 0..(Len(s) - Len(q)) : \A j \in DOMAIN q : SameLetter(q[j], s[k + j])

\* Stored task t satisfies every filter of f that counts as supplied: a filter
\* that is not None, and that is not the empty string unless emptyCounts.
Satisfies(t, f, emptyCounts) ==
  /\ f.status # None => t.status = f.status[1]
  /\ (f.tag # None /\ (emptyCounts \/ f.tag[1] # "")) =>
       \E i \in DOMAIN t.tags : t.tags[i] = f.tag[1]
  /\ (f.search # None /\ (emptyCounts \/ f.search[1] # << >>)) =>
       \/ Occurs(f.search[1], t.title)
       \/ Occurs(f.search[1], IF t.notes = None THEN << >> ELSE t.notes[1])

\* list_tasks returns, for every non-empty user id and every filter, exactly
\* the stored tasks of the user that satisfy the supplied filters, each once.
ListsExactlySatisfying(emptyCounts) ==
  \A u \in SoloUsers \ {""}, f \in FilterArgs :
    LET r == list_tasks_call(TASKS, u, f)
        want == {tid \in KeysOf(TASKS, u) : Satisfies(TaskOf(TASKS, u, tid), f, emptyCounts)}
    IN  /\ r.res.ok
        /\ ListPayloadIds(r.res) = want
        /\ Len(Listed(r.res)) = Cardinality(want)
        /\ \A i \in DOMAIN Listed(r.res) :
             Listed(r.res)[i] = DumpsTask(TaskOf(TASKS, u, Listed(r.res)[i].id[2]))

\* C14 as claimed: every filter that is given (not None) is applied, the empty
\* tag and the empty search included.
C14_ListExactlyGivenFilters == ListsExactlySatisfying(TRUE)

\* C14 amended: list_tasks returns exactly the user's tasks that satisfy every
\* filter that is given and not empty: status equals the task's status, tag is
\* a member of the task's tags, search occurs case-insensitively in the title
\* or in the notes (missing notes being the empty string). A tag or search
\* that is the empty string is ignored, as a missing one is.
C14_ListExactlyNonEmptyFilters == ListsExactlySatisfying(FALSE)

\* A user holds two tasks; the search "A" returns only the one that has it in
\* its notes (its title is "B"), and the tag "x" together with status
\* "completed" returns only the completed one of the two tagged tasks.
C14_Witness ==
  \E u \in SoloUsers \ {""} :
    LET s == list_tasks_call(TASKS, u, [NoFilter EXCEPT !.search = Some(<<"A">>)])
        t == list_tasks_call(TASKS, u, [NoFilter EXCEPT !.tag = Some("x")])
        c == list_tasks_call(TASKS, u, [status |-> Some("completed"), tag |-> Some("x"),
                                         search |-> None])
    IN  /\ u \in DOMAIN TASKS
        /\ Len(TASKS[u]) = 2
        /\ s.res.ok /\ t.res.ok /\ c.res.ok
        /\ Len(Listed(s.res)) = 1
        /\ Listed(s.res)[1].title = JStr(<<"B">>)
        /\ Len(Listed(t.res)) = 2
        /\ Len(Listed(c.res)) = 1

\* C15: status is one-way. In every step, a task that is stored before and
\* after the step has the same status, or goes from "open" to "completed" (so a
\* completed task stays completed for as long as it is stored); a task that
\* enters the store is "open"; and a task that is stored before the step and
\* not after it was removed by a successful remove_task of this step.
C15_StatusOneWay ==
  [][ /\ \A u \in DOMAIN TASKS : \A tid \in Keys(TASKS[u]) :
           IF tid \in KeysOf(TASKS', u)
           THEN \/ TaskOf(TASKS', u, tid).status = TaskOf(TASKS, u, tid).status
                \/ /\ TaskOf(TASKS, u, tid).status = "open"
                   /\ TaskOf(TASKS', u, tid).status = "completed"
           ELSE <<u, tid>> \in removed' /\ <<u, tid>> \notin removed
      /\ \A u \in DOMAIN TASKS' : \A tid \in Keys(TASKS'[u]) \ KeysOf(TASKS, u) :
           TaskOf(TASKS', u, tid).status = "open"
    ]_vars

\* A stored task was completed at an earlier instant and is still "completed"
\* after another task of the same user was removed.
C15_Witness ==
  \E p \in completed :
    /\ TaskOf(TASKS, p[1], p[2]).status = "completed"
    /\ TaskOf(TASKS, p[1], p[2]).updated_at # now(clock)
    /\ \E q \in removed : q[1] = p[1]

\* Store S holds a sub-mapping for every user of TASKS, and for u when `made`.
KeepsSubMappings(S, u, made) ==
  /\ DOMAIN TASKS \subseteq DOMAIN S
  /\ made => u \in DOMAIN S

\* After every call with a non-empty user id, except an add_task whose title is
\* refused when `titleFirst` holds, the user's sub-mapping exists; and no call
\* takes a sub-mapping away.
SubMappingLifecycle(titleFirst) ==
  /\ \A u \in UserIds, a \in AddArgs : \A tid \in AddIds(u, a) :
       KeepsSubMappings(add_task_call(TASKS, clock, tid, u, a).store, u,
                        u # "" /\ ~(titleFirst /\ Blank(a.title)))
  /\ \A u \in UserIds, f \in ListArgs :
       KeepsSubMappings(list_tasks_call(TASKS, u, f).store, u, u # "")
  /\ \A u \in UserIds, tid \in TaskIdArgs :
       /\ KeepsSubMappings(get_task_call(TASKS, u, tid).store, u, u # "")
       /\ KeepsSubMappings(complete_task_call(TASKS, clock, u, tid).store, u, u # "")
       /\ KeepsSubMappings(remove_task_call(TASKS, u, tid).store, u, u # "")

\* C16 as claimed: after any operation that references a non-empty user id the
\* user's sub-mapping exists, and no operation removes a sub-mapping.
C16_SubMappingAfterEveryCall == SubMappingLifecycle(FALSE)

\* C16 amended: after list_tasks, get_task, complete_task and remove_task with
\* a non-empty user id, failed or not, and after add_task with a non-empty
\* user id and a title that is not blank, the user's sub-mapping exists; an
\* add_task refused for its title does not create it. Once a sub-mapping
\* exists no operation removes it, also not remove_task of the last task.
C16_SubMappingLifecycle ==
  /\ SubMappingLifecycle(TRUE)
  /\ \A p \in removed : p[1] \in DOMAIN TASKS

\* A user's only task was removed and the empty sub-mapping is still there,
\* while another user has none yet and an add_task with a blank title for
\* them leaves it that way.
C16_Witness ==
  \E u \in ValidUsers, v \in ValidUsers :
    /\ u \in DOMAIN TASKS /\ TASKS[u] = << >>
    /\ \E p \in removed : p[1] = u
    /\ v \notin DOMAIN TASKS
    /\ \E a \in AddArgs :
         /\ Blank(a.title)
         /\ v \notin DOMAIN add_task_call(TASKS, clock, 0, v, a).store
    /\ v \in DOMAIN get_task_call(TASKS, v, 1).store

\* C17: store invariant. In every reachable state, every stored task has a
\* title that is not empty and neither starts nor ends with whitespace, has
\* status "open" or "completed", and is stored under the key that equals its id
\* field; and no two items of a user's sub-mapping have the same key.
C17_StoreInvariant ==
  \A u \in DOMAIN TASKS : \A i \in DOMAIN TASKS[u] :
    LET t == TASKS[u][i].v
    IN  /\ t.title # << >>
        /\ t.title[1] # " "
        /\ t.title[Len(t.title)] # " "
        /\ t.status \in {"open", "completed"}
        /\ TASKS[u][i].k = t.id
        /\ \A j \in DOMAIN TASKS[u] : j # i => TASKS[u][j].k # TASKS[u][i].k

\* A user holds two tasks, one added with a padded title and one completed.
C17_Witness ==
  \E u \in DOMAIN TASKS :
    /\ Len(TASKS[u]) = 2
    /\ \E i \in DOMAIN TASKS[u] :
         /\ TASKS[u][i].v.title = <<"B">>
         /\ added[TASKS[u][i].k].payload.title = JStr(<<"B">>)
    /\ \E i \in DOMAIN TASKS[u] : TASKS[u][i].v.status = "completed"

\* u's sub-mapping in store S, empty when there is none.
SubMapping(S, u) == IF u \in DOMAIN S THEN S[u] ELSE << >>

\* Store S differs from TASKS in u's sub-mapping at most, which is `sub` in S.
OnlySubMappingChanged(S, u, sub) ==
  /\ DOMAIN S = DOMAIN TASKS \cup {u}
  /\ S[u] = sub
  /\ \A x \in DOMAIN TASKS \ {u} : S[x] = TASKS[x]

\* C19: frame of the mutating operations. A successful add_task(U, ...) leaves
\* every item of the store as it was and adds one item, the new task under its
\* new id, to U's sub-mapping (count +1); a successful complete_task(U, id)
\* leaves every item but (U, id) as it was and keeps the keys (count 0); a
\* successful remove_task(U, id) leaves every item but (U, id) as it was and
\* takes that one away (count -1). The sub-mappings of all other users are
\* equal before and after.
C19_MutationFrame ==
  /\ \A u \in UserIds, a \in AddArgs : \A tid \in AddIds(u, a) :
       LET r == add_task_call(TASKS, clock, tid, u, a)
           old == SubMapping(TASKS, u)
       IN  r.res.ok =>
             /\ tid \notin Keys(old)
             /\ u \in DOMAIN r.store
             /\ Len(r.store[u]) = Len(old) + 1
             /\ OnlySubMappingChanged(r.store, u,
                   Append(old, [k |-> tid, v |-> r.store[u][Len(old) + 1].v]))
             /\ DumpsTask(r.store[u][Len(old) + 1].v) = r.res.payload
  /\ \A u \in UserIds, tid \in TaskIdArgs :
       LET c == complete_task_call(TASKS, clock, u, tid)
           d == remove_task_call(TASKS, u, tid)
           old == SubMapping(TASKS, u)
       IN  /\ c.res.ok =>
                 /\ u \in DOMAIN c.store
                 /\ Len(c.store[u]) = Len(old)
                 /\ Keys(c.store[u]) = Keys(old)
                 /\ OnlySubMappingChanged(c.store, u,
                       [i \in DOMAIN old |-> IF old[i].k = tid THEN c.store[u][i] ELSE old[i]])
           /\ d.res.ok =>
                 /\ tid \in Keys(old)
                 /\ u \in DOMAIN d.store
                 /\ Len(d.store[u]) = Len(old) - 1
                 /\ OnlySubMappingChanged(d.store, u, SelectSeq(old, LAMBDA e : e.k # tid))

\* A user holds a task that complete_task and remove_task succeed on, while
\* add_task succeeds for another user.
C19_Witness ==
  \E u \in ValidUsers, v \in ValidUsers :
    /\ u # v
    /\ \E tid \in KeysOf(TASKS, u) :
         /\ complete_task_call(TASKS, clock, u, tid).res.ok
         /\ remove_task_call(TASKS, u, tid).res.ok
    /\ \E a \in AddArgs : \E tid \in AddIds(v, a) :
         add_task_call(TASKS, clock, tid, v, a).res.ok

\* What the handler of frame fr does when it runs as one step from the store
\* it started from: the store it leaves and the outcome.
AtomicCall(fr) ==
  CASE fr.op = "add_task" -> add_task_call(fr.snap, fr.t, fr.tid, fr.u, fr.a)
    [] fr.op = "list_tasks" -> list_tasks_call(fr.snap, fr.u, NoFilter)
    [] fr.op = "get_task" -> get_task_call(fr.snap, fr.u, fr.tid)
    [] fr.op = "complete_task" -> complete_task_call(fr.snap, fr.t, fr.u, fr.tid)
    [] fr.op = "remove_task" -> remove_task_call(fr.snap, fr.u, fr.tid)

\* C18: atomicity under concurrent callers. With several callers sending
\* requests to the event loop, at no time are two handlers between their start
\* and their return, and when a handler returns, the store and the outcome are
\* what the whole operation yields when applied in one step to the store the
\* handler started from: the store moves from one serial result to the next and
\* no handler starts from a half-applied add, complete or remove.
C18_HandlersAtomic ==
  /\ \A c \in Callers, d \in Callers :
       (c # d /\ frames[c].pc # "idle") => frames[d].pc = "idle"
  /\ \A c \in Callers :
       /\ frames[c].pc = "start" => frames[c].snap = TASKS
       /\ frames[c].pc = "return" =>
            /\ TASKS = AtomicCall(frames[c]).store
            /\ frames[c].res = AtomicCall(frames[c]).res

\* complete_task is half applied: the status of a task is "completed" already
\* and its updated_at is still the one of its creation, at a later instant;
\* the other callers have no handler running.
C18_Witness ==
  \E c \in Callers :
    LET fr == frames[c]
    IN  /\ fr.op = "complete_task" /\ fr.pc = "status_set"
        /\ TaskOf(TASKS, fr.u, fr.tid).status = "completed"
        /\ TaskOf(fr.snap, fr.u, fr.tid).status = "open"
        /\ TaskOf(TASKS, fr.u, fr.tid).updated_at = TaskOf(TASKS, fr.u, fr.tid).created_at
        /\ TaskOf(TASKS, fr.u, fr.tid).updated_at # now(clock)
        /\ \A d \in Callers \ {c} : frames[d].pc = "idle"

====
